---- MODULE Spec2Model ----
(***************************************************************************)
(* Model of benchmarkTool/randomTests/nanoflann_testRandom.cpp: the random *)
(* point cloud generator, the timed build/query repetition (kdtree_demo)   *)
(* and the sweep over dataset sizes with its two-line report (main).       *)
(*                                                                         *)
(* Floating point values are modelled as exact fractions <<n, d>> in       *)
(* lowest terms with d > 0; <<0, 0>> is NaN and <<1, 0>> is +infinity, so  *)
(* that a division by zero is a value the model can observe.  Rounding of  *)
(* float/double is not modelled.                                           *)
(***************************************************************************)
EXTENDS Integers, Sequences, FiniteSets, TLC

\* ------------------------------------------------------------------ bounds
MaxN     == 2   \* largest dataset size tried
MaxReps  == 2   \* largest repetition count tried
MaxTick  == 1   \* largest clock advance (in clock ticks) of one step

\* Lengths of the size list (plotCount) tried.
PlotCounts == {0, 1, 2}
\* Lengths of the size list tried under a clock with varying latencies.
FreePlotCounts == {0, 1}

\* ------------------------------------------------------- program constants
CLOCKS_PER_SEC == 1000000
RAND_MOD       == 1000      \* rand() % 1000
RAND_DIV       == 1000      \* T(1000)
DEFAULT_RANGE  == 10        \* max_range = 10
MAX_LEAF       == 10        \* KDTreeSingleIndexAdaptorParams(10)

\* Values rand() may return (a sample of 0..RAND_MAX, RAND_MAX = 2^31 - 1 here).
RandValues == {999, 1000, 2147483647}
\* Values of max_range tried on the generator alone.
RangeValues == {-10, 0, 1, DEFAULT_RANGE}
\* First values of the runs of consecutive rand() results tried in a sweep.
RandBases == {0, 997}

Ticks == 0..MaxTick

\* -------------------------------------------------------------- arithmetic
Abs(a) == IF a < 0 THEN -a ELSE a

RECURSIVE GCD(_, _)
GCD(a, b) == IF b = 0 THEN a ELSE GCD(b, a % b)

NaN == <<0, 0>>
Inf == <<1, 0>>
Zero == <<0, 1>>

IsNaN(v) == v = NaN
IsInf(v) == v = Inf
IsFinite(v) == v[2] > 0

\* n/d in lowest terms, d > 0; a zero denominator gives NaN or infinity.
Norm(n, d) ==
    IF d = 0 THEN (IF n = 0 THEN NaN ELSE Inf)
    ELSE LET g == GCD(Abs(n), Abs(d))
             s == IF d < 0 THEN -1 ELSE 1
         IN  <<(s * n) \div g, (s * d) \div g>>

\* double(k) for an integer k.
ToDouble(k) == <<k, 1>>

\* a + b on doubles (operands are never negative infinity here).
DAdd(a, b) ==
    IF IsNaN(a) \/ IsNaN(b) THEN NaN
    ELSE IF IsInf(a) \/ IsInf(b) THEN Inf
    ELSE LET g == GCD(a[2], b[2])
             l == (a[2] \div g) * b[2]
         IN  Norm(a[1] * (l \div a[2]) + b[1] * (l \div b[2]), l)

\* a / k on doubles, k a non-negative integer converted to double.
DDiv(a, k) ==
    IF IsNaN(a) THEN NaN
    ELSE IF IsInf(a) THEN Inf
    ELSE Norm(a[1], a[2] * k)

\* --------------------------------------------------------------- generator
\* Faulty variant: the remainder is taken modulo 1001, so that the step 1000 occurs.
CoordOffByOne(max_range, rv) == Norm(max_range * (rv % (RAND_MOD + 1)), RAND_DIV)

\* max_range * (rand() % 1000) / T(1000), for the value rv returned by rand().
Coord(max_range, rv) == Norm(max_range * (rv % RAND_MOD), RAND_DIV)

\* generateRandomPointCloud(N, max_range): r is the sequence of the 3*N values
\* the calls of rand() return, in call order (x, y, z of point 0, then point 1, ...).
generateRandomPointCloud(N, max_range, r) ==
    [p \in 1..N |-> [x |-> Coord(max_range, r[3 * (p - 1) + 1]),
                     y |-> Coord(max_range, r[3 * (p - 1) + 2]),
                     z |-> Coord(max_range, r[3 * (p - 1) + 3])]]

VARIABLES gN, gRange, gRand, gPoint, gpc

gvars == <<gN, gRange, gRand, gPoint, gpc>>

GenIdle ==
    /\ gN = 0
    /\ gRange = DEFAULT_RANGE
    /\ gRand = <<>>
    /\ gPoint = <<>>
    /\ gpc = "idle"

\* A call generateRandomPointCloud<T>(N, max_range) about to run.
GenInit ==
    /\ gN \in 0..MaxN
    /\ gRange \in RangeValues
    /\ gRand \in [1..(3 * gN) -> RandValues]
    /\ gPoint = <<>>
    /\ gpc = "call"

\* The call runs to its return statement; the function has no failing path.
GenCall ==
    /\ gpc = "call"
    /\ gPoint' = generateRandomPointCloud(gN, gRange, gRand)
    /\ gpc' = "returned"
    /\ UNCHANGED <<gN, gRange, gRand>>

\* ------------------------------------------------------------- formatting
\* operator<<(ostream&, double) with the default flags: %g with 6 significant
\* digits.  Ties of the decimal rounding are rounded up.
RECURSIVE Exp10(_, _)
\* The X with 10^X <= n/d < 10^(X+1), for n > 0, d > 0.
Exp10(n, d) ==
    IF n >= 10 * d THEN 1 + Exp10(n, 10 * d)
    ELSE IF n < d THEN Exp10(10 * n, d) - 1
    ELSE 0

RECURSIVE Pow10(_)
Pow10(k) == IF k = 0 THEN 1 ELSE 10 * Pow10(k - 1)

RECURSIVE SigDigits(_, _, _)
\* The first k decimal digits of n/d, 1 <= n/d < 10, and the remainder left.
SigDigits(n, d, k) ==
    IF k = 0 THEN [m |-> 0, r |-> n]
    ELSE LET head == SigDigits(n, d, k - 1)
             cur  == IF k = 1 THEN head.r ELSE 10 * head.r
         IN  [m |-> 10 * head.m + (cur \div d), r |-> cur % d]

RECURSIVE StripZeros(_)
StripZeros(ds) ==
    IF Len(ds) > 1 /\ ds[Len(ds)] = 0 THEN StripZeros(SubSeq(ds, 1, Len(ds) - 1))
    ELSE ds

RECURSIVE DigitStr(_)
DigitStr(ds) == IF ds = <<>> THEN "" ELSE ToString(Head(ds)) \o DigitStr(Tail(ds))

RECURSIVE Zeros(_)
Zeros(k) == IF k <= 0 THEN <<>> ELSE <<0>> \o Zeros(k - 1)

\* The six digits of m, 100000 <= m <= 999999, most significant first.
Digits6(m) == [k \in 1..6 |-> (m \div Pow10(6 - k)) % 10]

FormatPositive(n, d) ==
    LET x0   == Exp10(n, d)
        sc   == IF x0 >= 0 THEN <<n, d * Pow10(x0)>> ELSE <<n * Pow10(-x0), d>>
        sd   == SigDigits(sc[1], sc[2], 6)
        up   == 2 * sd.r >= sc[2]
        m0   == IF up THEN sd.m + 1 ELSE sd.m
        m    == IF m0 = 1000000 THEN 100000 ELSE m0
        X    == IF m0 = 1000000 THEN x0 + 1 ELSE x0
        ds   == StripZeros(Digits6(m))
        ax   == Abs(X)
    IN  IF X < -4 \/ X >= 6
        THEN DigitStr(<<ds[1]>>)
             \o (IF Len(ds) > 1 THEN "." \o DigitStr(Tail(ds)) ELSE "")
             \o "e" \o (IF X < 0 THEN "-" ELSE "+")
             \o (IF ax < 10 THEN "0" ELSE "") \o ToString(ax)
        ELSE IF X < 0
        THEN "0." \o DigitStr(Zeros(-X - 1) \o ds)
        ELSE LET all == ds \o Zeros(X + 1 - Len(ds))
             IN  DigitStr(SubSeq(all, 1, X + 1))
                 \o (IF Len(all) > X + 1
                     THEN "." \o DigitStr(SubSeq(all, X + 2, Len(all)))
                     ELSE "")

FormatDouble(v) ==
    IF IsNaN(v) THEN "nan"
    ELSE IF IsInf(v) THEN "inf"
    ELSE IF v[1] = 0 THEN "0"
    ELSE IF v[1] < 0 THEN "-" \o FormatPositive(-v[1], v[2])
    ELSE FormatPositive(v[1], v[2])

\* ------------------------------------------------------------------ state
VARIABLES
    Ns, nReps,              \* the configured sizes and repetitions (main)
    buildLat, queryLat,     \* clock ticks a build / a query call may take
    gapLat,                 \* clock ticks any other step may take (one value)
    clk,                    \* the value clock() returns now
    pc,                     \* position in main / kdtree_demo
    i, repets,              \* loop counters of main
    buildTimer, queryTimer, \* accumulators of main, for the current size
    buildTime, queryTime,   \* the two result vectors
    output,                 \* what was written to std::cout, one entry per <<
    cloudS, cloudT, index,  \* locals of kdtree_demo
    qi, elapsed_secs,       \* query loop counter and its accumulator
    heap,                   \* the clouds and indexes alive
    events,                 \* history: what the current repetition did, in order
    builds, queries,        \* history: build / query calls issued per size
    timedBuild, timedQuery  \* history: ticks spent inside build calls of this
                            \* size / inside query calls of this repetition

mvars == <<Ns, nReps, buildLat, queryLat, gapLat, clk, pc, i, repets,
           buildTimer, queryTimer, buildTime, queryTime, output,
           cloudS, cloudT, index, qi, elapsed_secs, heap, events,
           builds, queries, timedBuild, timedQuery>>

vars == <<mvars, gvars>>

plotCount == Len(Ns)

\* The argument N of the running kdtree_demo<float>(Ns[i], ...).
N == Ns[i + 1]

Obj(name) == [name |-> name, i |-> i, rep |-> repets, n |-> N]

Event(op, j, pt, ds) == [op |-> op, j |-> j, pt |-> pt, ds |-> ds]

\* The results of the 3*n calls of rand() one generateRandomPointCloud makes.
RandRuns(n) == {[k \in 1..(3 * n) |-> b + k] : b \in RandBases}

\* main before its first loop iteration.
MainStart ==
    /\ clk = 0
    /\ pc = "size"
    /\ i = 0
    /\ repets = 0
    /\ buildTimer = Zero
    /\ queryTimer = Zero
    /\ buildTime = <<>>
    /\ queryTime = <<>>
    /\ output = <<>>
    /\ cloudS = <<>>
    /\ cloudT = <<>>
    /\ index = <<>>
    /\ qi = 0
    /\ elapsed_secs = Zero
    /\ heap = {}
    /\ events = <<>>
    /\ timedBuild = 0
    /\ timedQuery = 0

\* ------------------------------------------------------ timing arithmetic
\* double(end - begin) / CLOCKS_PER_SEC
BuildElapsed(begin, end) == DDiv(ToDouble(end - begin), CLOCKS_PER_SEC)

\* Faulty variant: the timer is read before the statements that precede the query.
QueryBeginEarly(now, prelude) == now

\* begin = clock() of a query iteration: the clock is read after the
\* statements of the iteration that precede it, which took `prelude` ticks.
QueryBegin(now, prelude) == now + prelude

\* Faulty variant: the total of the query loop is not divided by N.
AmortizedNoDivide(elapsed, n) == DDiv(elapsed, CLOCKS_PER_SEC)

\* elapsed_secs = elapsed_secs / CLOCKS_PER_SEC; then elapsed_secs / N
Amortized(elapsed, n) == DDiv(DDiv(elapsed, CLOCKS_PER_SEC), n)

\* Faulty variant: the division is skipped when there were no repetitions.
AveragedGuarded(acc, reps) == IF reps = 0 THEN acc ELSE DDiv(acc, reps)

\* buildTimer /= nReps[i]; queryTimer /= nReps[i];
Averaged(acc, reps) == DDiv(acc, reps)

\* Faulty variant: every query uses the first point of the cloud.
QueryPointFirst(cloud, j) == <<cloud[1].x, cloud[1].y, cloud[1].z>>

\* num_t query_pt[3] = {cloudT.pts[i].x, cloudT.pts[i].y, cloudT.pts[i].z}
QueryPoint(cloud, j) == <<cloud[j + 1].x, cloud[j + 1].y, cloud[j + 1].z>>

\* Faulty variant: the clouds outlive the call (held by a longer-lived owner).
ReleasedIndexOnly == {Obj("index")}

\* The locals destroyed when kdtree_demo returns.
Released == {Obj("index"), Obj("cloudT"), Obj("cloudS")}

MainInit ==
    /\ \E pcnt \in PlotCounts :
         /\ Ns \in [1..pcnt -> 0..MaxN]
         /\ nReps \in [1..pcnt -> 0..MaxReps]
         /\ builds = [k \in 1..pcnt |-> 0]
         /\ queries = [k \in 1..pcnt |-> 0]
         /\ \/ \E B \in Ticks, Q \in Ticks, G \in Ticks :
                 buildLat = {B} /\ queryLat = {Q} /\ gapLat = {G}
            \/ /\ pcnt \in FreePlotCounts
               /\ buildLat = Ticks /\ queryLat = Ticks
               /\ \E G \in Ticks : gapLat = {G}
    /\ MainStart

Init == MainInit /\ GenIdle

\* ------------------------------------------------------------------- main
\* for (i < plotCount) { double buildTimer = 0, queryTimer = 0; for (repets = 0; ...
SizeBegin ==
    /\ pc = "size"
    /\ i < plotCount
    /\ buildTimer' = Zero
    /\ queryTimer' = Zero
    /\ repets' = 0
    /\ timedBuild' = 0
    /\ pc' = "rep"
    /\ UNCHANGED <<Ns, nReps, buildLat, queryLat, gapLat, clk, i, buildTime,
                   queryTime, output, cloudS, cloudT, index, qi, elapsed_secs,
                   heap, events, builds, queries, timedQuery, gvars>>

\* buildTimer /= nReps[i]; queryTimer /= nReps[i]; push_back both; i++
Average ==
    /\ pc = "rep"
    /\ repets >= nReps[i + 1]
    /\ buildTime' = Append(buildTime, Averaged(buildTimer, nReps[i + 1]))
    /\ queryTime' = Append(queryTime, Averaged(queryTimer, nReps[i + 1]))
    /\ i' = i + 1
    /\ pc' = "size"
    /\ UNCHANGED <<Ns, nReps, buildLat, queryLat, gapLat, clk, repets,
                   buildTimer, queryTimer, output, cloudS, cloudT, index, qi,
                   elapsed_secs, heap, events, builds, queries, timedBuild,
                   timedQuery, gvars>>

RECURSIVE PrintAllNoSpace(_)
\* Faulty variant: the values are written without the separator.
PrintAllNoSpace(v) ==
    IF v = <<>> THEN <<>>
    ELSE <<FormatDouble(Head(v))>> \o PrintAllNoSpace(Tail(v))

RECURSIVE PrintAll(_)
\* for (...) std::cout << v[i] << " ";
PrintAll(v) ==
    IF v = <<>> THEN <<>>
    ELSE <<FormatDouble(Head(v)), " ">> \o PrintAll(Tail(v))

\* The two printing loops, each followed by std::cout << "\n"; return 0.
Report ==
    /\ pc = "size"
    /\ i >= plotCount
    /\ output' = output \o PrintAll(buildTime) \o <<"\n">>
                        \o PrintAll(queryTime) \o <<"\n">>
    /\ pc' = "done"
    /\ UNCHANGED <<Ns, nReps, buildLat, queryLat, gapLat, clk, i, repets,
                   buildTimer, queryTimer, buildTime, queryTime, cloudS,
                   cloudT, index, qi, elapsed_secs, heap, events, builds,
                   queries, timedBuild, timedQuery, gvars>>

\* ------------------------------------------------------------ kdtree_demo
\* The call kdtree_demo<float>(Ns[i], buildTimer, queryTimer) and its first
\* statement: cloudS = generateRandomPointCloud<num_t>(N).
GenS ==
    /\ pc = "rep"
    /\ repets < nReps[i + 1]
    /\ \E r \in RandRuns(N), g \in gapLat :
         /\ cloudS' = generateRandomPointCloud(N, DEFAULT_RANGE, r)
         /\ clk' = clk + g
    /\ heap' = heap \cup {Obj("cloudS")}
    /\ events' = <<Event("genS", N, <<>>, <<i, repets>>)>>
    /\ pc' = "genT"
    /\ UNCHANGED <<Ns, nReps, buildLat, queryLat, gapLat, i, repets,
                   buildTimer, queryTimer, buildTime, queryTime, output,
                   cloudT, index, qi, elapsed_secs, builds, queries,
                   timedBuild, timedQuery, gvars>>

\* cloudT = generateRandomPointCloud<num_t>(N)
GenT ==
    /\ pc = "genT"
    /\ \E r \in RandRuns(N), g \in gapLat :
         /\ cloudT' = generateRandomPointCloud(N, DEFAULT_RANGE, r)
         /\ clk' = clk + g
    /\ heap' = heap \cup {Obj("cloudT")}
    /\ events' = Append(events, Event("genT", N, <<>>, <<i, repets>>))
    /\ pc' = "build"
    /\ UNCHANGED <<Ns, nReps, buildLat, queryLat, gapLat, i, repets,
                   buildTimer, queryTimer, buildTime, queryTime, output,
                   cloudS, index, qi, elapsed_secs, builds, queries,
                   timedBuild, timedQuery, gvars>>

\* begin = clock(); index(3, cloudS, params(10)); index.buildIndex();
\* end = clock(); buildTimer += double(end - begin) / CLOCKS_PER_SEC;
\* double elapsed_secs = 0;
Build ==
    /\ pc = "build"
    /\ \E d \in buildLat :
         LET begin == clk
             end   == clk + d
         IN  /\ clk' = end
             /\ buildTimer' = DAdd(buildTimer, BuildElapsed(begin, end))
             /\ timedBuild' = timedBuild + d
    /\ index' = <<[dataset |-> <<i, repets>>, npts |-> Len(cloudS),
                   leaf |-> MAX_LEAF]>>
    /\ heap' = heap \cup {Obj("index")}
    /\ events' = Append(events, Event("build", Len(cloudS), <<>>, <<i, repets>>))
    /\ builds' = [builds EXCEPT ![i + 1] = @ + 1]
    /\ elapsed_secs' = Zero
    /\ qi' = 0
    /\ timedQuery' = 0
    /\ pc' = "query"
    /\ UNCHANGED <<Ns, nReps, buildLat, queryLat, gapLat, i, repets,
                   queryTimer, buildTime, queryTime, output, cloudS, cloudT,
                   queries, gvars>>

\* One iteration of for (i < N): query_pt = cloudT.pts[i]; begin = clock();
\* findNeighbors(resultSet, query_pt, ...); end = clock();
\* elapsed_secs += double(end - begin);
Query ==
    /\ pc = "query"
    /\ qi < N
    /\ \E g \in gapLat, d \in queryLat :
         LET begin == QueryBegin(clk, g)
             end   == clk + g + d
         IN  /\ clk' = end
             /\ elapsed_secs' = DAdd(elapsed_secs, ToDouble(end - begin))
             /\ timedQuery' = timedQuery + d
    /\ LET query_pt == QueryPoint(cloudT, qi)
       IN  events' = Append(events, Event("query", qi, query_pt, index[1].dataset))
    /\ queries' = [queries EXCEPT ![i + 1] = @ + 1]
    /\ qi' = qi + 1
    /\ UNCHANGED <<Ns, nReps, buildLat, queryLat, gapLat, pc, i, repets,
                   buildTimer, queryTimer, buildTime, queryTime, output,
                   cloudS, cloudT, index, heap, builds, timedBuild, gvars>>

\* elapsed_secs = elapsed_secs / CLOCKS_PER_SEC; queryTimer += elapsed_secs / N;
\* return: index, cloudT and cloudS are destroyed; repets++ in main.
DemoReturn ==
    /\ pc = "query"
    /\ qi >= N
    /\ queryTimer' = DAdd(queryTimer, Amortized(elapsed_secs, N))
    /\ heap' = heap \ Released
    /\ cloudS' = <<>>
    /\ cloudT' = <<>>
    /\ index' = <<>>
    /\ qi' = 0
    /\ elapsed_secs' = Zero
    /\ \E g \in gapLat : clk' = clk + g
    /\ repets' = repets + 1
    /\ pc' = "rep"
    /\ UNCHANGED <<Ns, nReps, buildLat, queryLat, gapLat, i, buildTimer,
                   buildTime, queryTime, output, events, builds, queries,
                   timedBuild, timedQuery, gvars>>

\* -------------------------------------------------------- fatal failures
\* Faulty variant: the exception is swallowed and the sweep goes on with the next
\* repetition.
TerminateSwallowed ==
    /\ pc' = "rep"
    /\ repets' = repets + 1
    /\ heap' = {}
    /\ UNCHANGED <<Ns, nReps, buildLat, queryLat, gapLat, clk, i,
                   buildTimer, queryTimer, buildTime, queryTime, output,
                   cloudS, cloudT, index, qi, elapsed_secs, events,
                   builds, queries, timedBuild, timedQuery, gvars>>

\* Nothing in main catches: an exception ends the process (std::terminate).
Terminate ==
    /\ pc' = "aborted"
    /\ UNCHANGED <<Ns, nReps, buildLat, queryLat, gapLat, clk, i, repets,
                   buildTimer, queryTimer, buildTime, queryTime, output,
                   cloudS, cloudT, index, qi, elapsed_secs, heap, events,
                   builds, queries, timedBuild, timedQuery, gvars>>

\* point.pts.resize(N) throws std::bad_alloc.
GenThrow ==
    /\ \/ pc = "rep" /\ repets < nReps[i + 1]
       \/ pc = "genT"
    /\ Terminate

\* The index constructor or buildIndex() throws.
BuildThrow ==
    /\ pc = "build"
    /\ Terminate

\* findNeighbors() throws.
QueryThrow ==
    /\ pc = "query"
    /\ qi < N
    /\ Terminate

Next ==
    \/ SizeBegin
    \/ GenS
    \/ GenT
    \/ Build
    \/ Query
    \/ DemoReturn
    \/ Average
    \/ Report
    \/ GenThrow
    \/ BuildThrow
    \/ QueryThrow

Spec == Init /\ [][Next]_vars

\* ------------------------------------------- the generator on its own
\* The sweep is not running: an empty configuration, not started.
MainIdle ==
    /\ Ns = <<>>
    /\ nReps = <<>>
    /\ builds = <<>>
    /\ queries = <<>>
    /\ buildLat = {0}
    /\ queryLat = {0}
    /\ gapLat = {0}
    /\ MainStart

InitGen == MainIdle /\ GenInit

NextGen == GenCall /\ UNCHANGED mvars

SpecGen == InitGen /\ [][NextGen]_vars

\* ---------------------------------------------------------------- claims
NonNegNumber(v) == IsFinite(v) /\ v[1] >= 0

\* Size index k (1-based) has had its averages appended.
Finished(k) == k <= Len(buildTime)

InSize == pc \in {"rep", "genT", "build", "query"}

\* C1: under a clock where every build call takes B ticks and every query call
\* Q ticks, a finished size with sizes[k] >= 1 and repetitions[k] >= 1 has
\* buildTimes[k] = B / CLOCKS_PER_SEC and queryTimes[k] = Q / CLOCKS_PER_SEC,
\* whatever the repetition count, the size and the other sizes' timings.
C1_AggregationCorrect ==
    \A k \in 1..Len(buildTime) : \A B \in Ticks, Q \in Ticks :
        (buildLat = {B} /\ queryLat = {Q} /\ Ns[k] >= 1 /\ nReps[k] >= 1)
            => /\ buildTime[k] = Norm(B, CLOCKS_PER_SEC)
               /\ queryTime[k] = Norm(Q, CLOCKS_PER_SEC)

C1_Witness ==
    /\ buildLat = {1} /\ queryLat = {1}
    /\ Len(queryTime) = 2
    /\ Ns[1] = 1 /\ Ns[2] = 2
    /\ nReps[1] = 1 /\ nReps[2] = 2
    /\ queryTime[2] = Norm(1, CLOCKS_PER_SEC)

\* C2 (as claimed): a finished size with sizes[k] = 0 and repetitions[k] >= 1
\* made no query, skipped the amortization division and reports
\* queryTimes[k] = 0.
C2_ZeroSizeQueryTimeZero ==
    \A k \in 1..Len(queryTime) :
        (Ns[k] = 0 /\ nReps[k] >= 1) => (queries[k] = 0 /\ queryTime[k] = Zero)

\* C3 (as claimed): the report is two lines, the values of a line separated
\* by single spaces and nothing else but the line terminators.
RECURSIVE Separated(_)
Separated(v) ==
    IF v = <<>> THEN <<>>
    ELSE IF Len(v) = 1 THEN <<FormatDouble(v[1])>>
    ELSE <<FormatDouble(Head(v)), " ">> \o Separated(Tail(v))

C3_OutputShapeSeparated ==
    pc = "done" => output = Separated(buildTime) \o <<"\n">>
                            \o Separated(queryTime) \o <<"\n">>

\* C3 (amended): the report is two lines; the first holds the len(sizes)
\* values of buildTimes in order, the second those of queryTimes, EVERY value
\* (the last one too) followed by one space, each line ended by "\n", and
\* nothing else is written, before or after.
C3_OutputShape ==
    /\ pc # "done" => output = <<>>
    /\ pc = "done" =>
         /\ Len(buildTime) = plotCount
         /\ Len(queryTime) = plotCount
         /\ Len(output) = 4 * plotCount + 2
         /\ \A k \in 1..plotCount :
              /\ output[2 * k - 1] = FormatDouble(buildTime[k])
              /\ output[2 * k] = " "
              /\ output[2 * plotCount + 1 + 2 * k - 1] = FormatDouble(queryTime[k])
              /\ output[2 * plotCount + 1 + 2 * k] = " "
         /\ output[2 * plotCount + 1] = "\n"
         /\ output[4 * plotCount + 2] = "\n"

C3_Witness ==
    /\ pc = "done"
    /\ plotCount = 2
    /\ output[1] = "1e-06"
    /\ output[5] = "\n"

\* C4: sizes are processed in list order and repetitions one after another;
\* a repetition does: generate source, generate target, build one index over
\* source, then the queries, the j-th with the j-th target point against the
\* index of this repetition; a finished size has had repetitions[k] builds
\* and repetitions[k] * sizes[k] queries; no build or query of a size happens
\* before the averages of the sizes before it are appended.
C4_MeasurementOrder ==
    /\ Len(buildTime) = i /\ Len(queryTime) = i
    /\ \A k \in 1..plotCount :
         /\ Finished(k) => builds[k] = nReps[k] /\ queries[k] = nReps[k] * Ns[k]
         /\ (builds[k] > 0 \/ queries[k] > 0) => k <= i + 1
    /\ InSize =>
         /\ builds[i + 1] = repets + (IF pc = "query" THEN 1 ELSE 0)
         /\ queries[i + 1] = repets * N + (IF pc = "query" THEN qi ELSE 0)
    /\ pc \in {"genT", "build", "query"} =>
         /\ Len(events) = (IF pc = "genT" THEN 1 ELSE IF pc = "build" THEN 2
                           ELSE 3 + qi)
         /\ qi <= N
         /\ \A e \in 1..Len(events) :
              /\ events[e].op = (IF e = 1 THEN "genS" ELSE IF e = 2 THEN "genT"
                                 ELSE IF e = 3 THEN "build" ELSE "query")
              /\ events[e].ds = <<i, repets>>
              /\ e <= 3 => events[e].j = N
              /\ e > 3 =>
                   /\ events[e].j = e - 4
                   /\ events[e].pt = <<cloudT[e - 3].x, cloudT[e - 3].y,
                                       cloudT[e - 3].z>>
         /\ pc = "query" => index[1].dataset = <<i, repets>>

C4_Witness ==
    /\ pc = "query"
    /\ i = 1 /\ repets = 1
    /\ N = 2 /\ qi = 2
    /\ queries[1] >= 1
    /\ events[4].pt # events[5].pt

\* C5: at most two clouds and one index are alive, all of the current
\* repetition and of the current size; none is alive between repetitions or
\* between sizes, when the next clouds are about to be generated.
C5_ReleaseBeforeNext ==
    /\ Cardinality({o \in heap : o.name \in {"cloudS", "cloudT"}}) <= 2
    /\ Cardinality({o \in heap : o.name = "index"}) <= 1
    /\ heap # {} => i < plotCount
    /\ \A o \in heap : o.i = i /\ o.rep = repets /\ o.n = N
    /\ pc \in {"size", "rep", "done"} => heap = {}

C5_Witness ==
    /\ pc = "query"
    /\ Cardinality(heap) = 3
    /\ i = 1 /\ repets = 1
    /\ N = 2

\* C6 (as claimed): generate fails when valueRange <= 0: it returns no cloud.
C6_InvalidRangeRejected == gRange <= 0 => gpc # "returned"

\* C7: nothing is written before every size has had all its repetitions; a
\* fatal failure in a repetition aborts the run with no averages appended for
\* that size and no output; no build or query is issued more often than
\* configured (nothing is retried).
C7_NoPartialResults ==
    /\ output # <<>> =>
         /\ pc = "done"
         /\ Len(buildTime) = plotCount
         /\ \A k \in 1..plotCount :
              builds[k] = nReps[k] /\ queries[k] = nReps[k] * Ns[k]
    /\ pc = "aborted" =>
         /\ output = <<>>
         /\ i < plotCount
         /\ Len(buildTime) = i
         /\ Len(queryTime) = i
    /\ \A k \in 1..plotCount :
         builds[k] <= nReps[k] /\ queries[k] <= nReps[k] * Ns[k]

C7_Witness ==
    /\ pc = "aborted"
    /\ i = 1
    /\ builds[2] = 2
    /\ queries[2] >= 1

\* C8: for a positive valueRange the cloud has exactly n points and every
\* coordinate is valueRange * k / 1000 for an integer k in 0..999, hence in
\* [0, valueRange).
QuantizedIn(c, range) ==
    /\ IsFinite(c)
    /\ LET k == (c[1] * RAND_DIV) \div (c[2] * range)
       IN  k \in 0..999 /\ c = Norm(range * k, 1000)
    /\ c[1] >= 0
    /\ c[1] < range * c[2]

C8_GeneratorRange ==
    (gpc = "returned" /\ gRange > 0) =>
        /\ Len(gPoint) = gN
        /\ \A p \in 1..Len(gPoint) :
             /\ QuantizedIn(gPoint[p].x, gRange)
             /\ QuantizedIn(gPoint[p].y, gRange)
             /\ QuantizedIn(gPoint[p].z, gRange)

C8_Witness ==
    /\ gpc = "returned"
    /\ gRange = DEFAULT_RANGE
    /\ gN = 2
    /\ gPoint[1].x = Norm(DEFAULT_RANGE * 999, 1000)
    /\ gPoint[1].y = Zero
    /\ gPoint[2].z = Norm(DEFAULT_RANGE * 647, 1000)

\* C9: the build accumulator of a size holds exactly the clock ticks that
\* passed inside its build calls, and the query accumulator of a repetition
\* exactly the ticks that passed inside its query calls: time passing during
\* generation, between queries or during release is in neither.
C9_TimerBracketing ==
    /\ InSize => buildTimer = Norm(timedBuild, CLOCKS_PER_SEC)
    /\ pc = "query" => elapsed_secs = ToDouble(timedQuery)

C9_Witness ==
    /\ pc = "query"
    /\ buildLat = Ticks /\ gapLat = {1}
    /\ i = 0 /\ repets = 0
    /\ qi = 2
    /\ timedBuild = 1
    /\ timedQuery = 1
    /\ clk = timedBuild + timedQuery + 4

====
